---- MODULE Spec2Model ----
(***************************************************************************)
(* Model of services/testing.py: the LLM-vs-LLM simulation and evaluation  *)
(* harness (_openai_client, _llm_chat, run_simulation, evaluate_summative, *)
(* batch_runner).                                                          *)
(*                                                                         *)
(* Python values are represented as follows.                               *)
(*   str    a TLA+ string (Len, \o and SubSeq act on characters)           *)
(*   list   a sequence                                                     *)
(*   dict   a sequence of <<key, value>> pairs with distinct keys, in      *)
(*          insertion order (the iteration order of a Python dict)         *)
(*   float  the temperature only: an integer number of tenths              *)
(* A call either returns or raises: an outcome is a record whose field exc *)
(* is "none" or the name of the exception that propagates.                 *)
(***************************************************************************)
EXTENDS Integers, Sequences, FiniteSets, TLC

VARIABLES
  openai,      \* what _openai_client finds: "missing", "broken" or "ok"
  envChanges,  \* number of changes of openai so far
  pc,          \* position of the running top-level call
  entry,       \* the top-level function that was called
  args,        \* its arguments
  sim,         \* the arguments of the running run_simulation call
  persona_i,   \* batch_runner: index of the persona being processed
  turn,        \* run_simulation: loop variable
  history,     \* run_simulation: local list history
  transcript,  \* run_simulation: local list transcript
  simulation,  \* batch_runner: the SimulationResult of the current persona
  results,     \* batch_runner: local list results
  ret,         \* outcome of the top-level call
  calls,       \* log of the backend uses, in the order they were made
  objects      \* the transcript and rubric objects the caller handed to the
               \* last evaluate_summative call, as they are after it

vars == <<openai, envChanges, pc, entry, args, sim, persona_i, turn, history,
          transcript, simulation, results, ret, calls, objects>>

----------------------------------------------------------------------------
(* Bounds of the model. *)

MaxTurns == 2
MaxPersonas == 2
MaxEnvChanges == 1
MaxMessages == 2
MaxChatCalls == 2
MaxHundreds == 36
MaxEvalTurns == 2
MaxDiffKeys == 2

----------------------------------------------------------------------------
(* Python primitives. *)

Min(a, b) == IF a < b THEN a ELSE b
Max(a, b) == IF a > b THEN a ELSE b
MaxFields == 2
MaxOver == 1
MaxScenarios == 2

\* s[:n]
Take(s, n) == SubSeq(s, 1, Min(n, Len(s)))

\* sep.join(parts)
RECURSIVE Join(_, _)
Join(sep, parts) ==
  IF parts = <<>> THEN ""
  ELSE IF Len(parts) = 1 THEN parts[1]
  ELSE parts[1] \o sep \o Join(sep, Tail(parts))

\* s * n (input generator)
RECURSIVE Rep(_, _)
Rep(s, n) ==
  IF n = 0 THEN ""
  ELSE LET h == Rep(s, n \div 2)
       IN  IF n % 2 = 0 THEN h \o h ELSE h \o h \o s

\* dict operations on sequences of <<key, value>> pairs
DictValues(d) == [i \in 1..Len(d) |-> d[i][2]]
DictHas(d, k) == \E i \in 1..Len(d) : d[i][1] = k
DictGet(d, k, default) ==
  IF DictHas(d, k) THEN d[CHOOSE i \in 1..Len(d) : d[i][1] = k][2] ELSE default
\* (a store that replaces a value and never adds a key)
DictSet_ReplaceOnly(d, k, v) ==
  IF DictHas(d, k)
  THEN [i \in 1..Len(d) |-> IF d[i][1] = k THEN <<k, v>> ELSE d[i]]
  ELSE d

DictSet(d, k, v) ==
  IF DictHas(d, k)
  THEN [i \in 1..Len(d) |-> IF d[i][1] = k THEN <<k, v>> ELSE d[i]]
  ELSE Append(d, <<k, v>>)

RECURSIVE Sum(_)
Sum(xs) == IF xs = <<>> THEN 0 ELSE xs[1] + Sum(Tail(xs))

----------------------------------------------------------------------------
(* _openai_client and _llm_chat. *)

LibStates == {"missing", "broken", "ok"}

\* (a missing library reported as an error, as services/openai_assistants does)
_openai_client_Raises(lib) ==
  CASE lib = "missing" -> [exc |-> "RuntimeError", client |-> "None"]
    [] lib = "broken"  -> [exc |-> "OpenAIError", client |-> "None"]
    [] lib = "ok"      -> [exc |-> "none", client |-> "OpenAI"]

\* _openai_client(): None when the library is not installed, the exception of
\* OpenAI() when the client cannot be constructed, else a client.
_openai_client(lib) ==
  CASE lib = "missing" -> [exc |-> "none", client |-> "None"]
    [] lib = "broken"  -> [exc |-> "OpenAIError", client |-> "None"]
    [] lib = "ok"      -> [exc |-> "none", client |-> "OpenAI"]

OfflineMarker == "[offline-response] "
OfflineCut == 200
DefaultTemperature == 2

\* (every message that is not a system message taken for learner input)
RECURSIVE UserContents_NotSystem(_)
UserContents_NotSystem(messages) ==
  IF messages = <<>> THEN <<>>
  ELSE (IF messages[1].role # "system" THEN <<messages[1].content>> ELSE <<>>)
       \o UserContents_NotSystem(Tail(messages))

\* (the contents of all messages, whatever their role)
UserContents_AllRoles(messages) ==
  [i \in 1..Len(messages) |-> messages[i].content]

\* [message["content"] for message in messages if message["role"] == "user"]
RECURSIVE UserContents(_)
UserContents(messages) ==
  IF messages = <<>> THEN <<>>
  ELSE (IF messages[1].role = "user" THEN <<messages[1].content>> ELSE <<>>)
       \o UserContents(Tail(messages))

\* (a cut that grows with the temperature)
OfflineResponse_Temperature(messages, temperature) ==
  LET combined == Join(" ", UserContents(messages))
  IN  OfflineMarker \o Take(combined, (OfflineCut * temperature) \div DefaultTemperature)

\* the offline branch of _llm_chat
OfflineResponse(messages, temperature) ==
  LET combined == Join(" ", UserContents(messages))
  IN  OfflineMarker \o Take(combined, OfflineCut)

\* what client.responses.create(...).output_text can be: the live service
\* answers with some text or the call raises
LiveTexts == {"Gut."}
LiveOutcomes ==
  {[exc |-> "none", text |-> t, mode |-> "live"] : t \in LiveTexts}
  \cup {[exc |-> "APIError", text |-> "", mode |-> "live"]}

\* the outcomes of _llm_chat(messages, temperature) when _openai_client finds lib
_llm_chat(messages, temperature, lib) ==
  LET c == _openai_client(lib)
  IN  IF c.exc # "none"
      THEN {[exc |-> c.exc, text |-> "", mode |-> "none"]}
      ELSE IF c.client = "None"
      THEN {[exc |-> "none", text |-> OfflineResponse(messages, temperature),
             mode |-> "offline"]}
      ELSE LiveOutcomes

----------------------------------------------------------------------------
(* evaluate_summative. *)

PassMark == 60
ScoreFloor == 40
ScoreCeiling == 95
ScoreBase == 60
ScoreStep == 100

\* f"{turn.role}: {turn.content}" for every turn of the transcript
RenderTurns(tscript) ==
  [i \in 1..Len(tscript) |->
     tscript[i].role \o ": " \o tscript[i].content]

\* combined_text
CombinedText(tscript) == Join("\n", RenderTurns(tscript))

\* (the upper clamp left out)
BaseScore_NoCeiling(combined_text) ==
  Max(ScoreFloor, ScoreBase + (Len(combined_text) \div ScoreStep))

\* max(40, min(95, 60 + len(combined_text) // 100))
BaseScore(combined_text) ==
  Max(ScoreFloor, Min(ScoreCeiling, ScoreBase + (Len(combined_text) \div ScoreStep)))

\* (the weight of each category taken for its score)
ScoresFor_Weights(rubric, base_score) == rubric

\* {key: base_score for key in rubric}
ScoresFor(rubric, base_score) ==
  [i \in 1..Len(rubric) |-> <<rubric[i][1], base_score>>]

\* (a verdict that needs more than the pass mark)
Passed_Strict(scores) == DictGet(scores, "gesamt", 0) > PassMark

\* scores["gesamt"] >= 60 offline, scores.get("gesamt", 0) >= 60 live
Passed(scores) == DictGet(scores, "gesamt", 0) >= PassMark

\* the offline branch of evaluate_summative
OfflineEvaluation(combined_text, rubric, persona) ==
  LET base_score == BaseScore(combined_text)
      scores == ScoresFor(rubric, base_score)
  IN  IF Len(scores) = 0
      THEN [exc |-> "ZeroDivisionError", mode |-> "offline"]
      ELSE LET gesamt == Sum(DictValues(scores)) \div Len(scores)
               final == DictSet(scores, "gesamt", gesamt)
           IN  [exc |-> "none", mode |-> "offline",
                value |-> [persona |-> persona,
                           scores |-> final,
                           highlights |-> <<"Offline high-level feedback">>,
                           improvements |-> <<"Verbesserungsvorschläge offline">>,
                           notes |-> "Offline evaluation (no OpenAI client)",
                           passed |-> Passed(final)]]

(* What the live service can answer to the evaluation request.  A response  *)
(* is [exc |-> e] when client.responses.create raises, else its output_text *)
(* described by what json.loads makes of it: [json |-> FALSE] is text that  *)
(* is no JSON document, [json |-> TRUE, value |-> v] parses to v.  A JSON   *)
(* value is tagged with its Python type: [t |-> "dict", v |-> pairs],       *)
(* [t |-> "list", v |-> items], [t |-> "str", v |-> s], [t |-> "null"];     *)
(* the values of a scores object are integers.                              *)
JList(items) == [t |-> "list", v |-> items]
JStr(s) == [t |-> "str", v |-> s]
JDict(pairs) == [t |-> "dict", v |-> pairs]
JNull == [t |-> "null"]

\* result.get(key, default) on a parsed object
ResultGet(result, key, default) == DictGet(result.v, key, default)

\* (text that is no JSON taken for an empty result)
json_loads_Lenient(response) ==
  IF response.json THEN [exc |-> "none", value |-> response.value]
  ELSE [exc |-> "none", value |-> JDict(<<>>)]

\* json.loads(response.output_text)
json_loads(response) ==
  IF response.json THEN [exc |-> "none", value |-> response.value]
  ELSE [exc |-> "JSONDecodeError"]

\* the live branch of evaluate_summative, from the response of the service
LiveEvaluation(response, persona) ==
  IF response.exc # "none" THEN [exc |-> response.exc, mode |-> "live"]
  ELSE IF json_loads(response).exc # "none"
  THEN [exc |-> json_loads(response).exc, mode |-> "live"]
  ELSE LET result == json_loads(response).value
       IN  IF result.t # "dict" THEN [exc |-> "AttributeError", mode |-> "live"]
           ELSE LET scores == ResultGet(result, "scores", JDict(<<>>))
                IN  IF scores.t # "dict"
                    THEN [exc |-> "AttributeError", mode |-> "live"]
                    ELSE [exc |-> "none", mode |-> "live",
                          value |->
                            [persona |-> persona,
                             scores |-> scores.v,
                             highlights |-> ResultGet(result, "highlights", JList(<<>>)).v,
                             improvements |-> ResultGet(result, "improvements", JList(<<>>)).v,
                             notes |-> ResultGet(result, "notes", JStr("")).v,
                             passed |-> Passed(scores.v)]]

\* (the scores written into the rubric dict itself)
ScoresObject_Rubric == "rubric"

\* scores = {key: base_score for key in rubric}: the comprehension builds a
\* new dict, and the name scores is bound to it
ScoresObject == "scores"

NoObjects == [transcript |-> <<>>, rubric |-> <<>>]

\* the transcript and the rubric after evaluate_summative(transcript, rubric,
\* persona): both are only iterated; the offline branch stores into the dict
\* that scores names, first the comprehension and then, unless the division
\* raised, the key "gesamt"
ObjectsAfter(tscript, rubric, lib) ==
  LET c == _openai_client(lib)
      heap == [transcript |-> tscript, rubric |-> rubric, scores |-> <<>>]
      built == [heap EXCEPT ![ScoresObject] =
                  ScoresFor(rubric, BaseScore(CombinedText(tscript)))]
      stored == IF Len(built[ScoresObject]) = 0 THEN built
                ELSE [built EXCEPT ![ScoresObject] =
                        DictSet(@, "gesamt", Sum(DictValues(@)) \div Len(@))]
      after == IF c.exc = "none" /\ c.client = "None" THEN stored ELSE heap
  IN  [transcript |-> after.transcript, rubric |-> after.rubric]

\* evaluate_summative(transcript, rubric, persona) when _openai_client finds
\* lib and the live service, if asked, answers with response
evaluate_summative(tscript, rubric, persona, lib, response) ==
  LET combined_text == CombinedText(tscript)
      c == _openai_client(lib)
  IN  IF c.exc # "none" THEN [exc |-> c.exc, mode |-> "none"]
      ELSE IF c.client = "None"
      THEN OfflineEvaluation(combined_text, rubric, persona)
      ELSE LiveEvaluation(response, persona)

----------------------------------------------------------------------------
(* Inputs of the calls. *)

MainPrompts == {"sys"}
PersonaNames == <<"best_case", "weak", "zero_knowledge">>
PersonaIds == {PersonaNames[i] : i \in 1..Min(MaxPersonas, Len(PersonaNames))}
PersonaPrompt(p) == "Persona: " \o p \o "."

\* the sequences of at most n distinct elements of S
RECURSIVE DistinctSeqs(_, _)
DistinctSeqs(S, n) ==
  IF n = 0 THEN {<<>>}
  ELSE LET shorter == DistinctSeqs(S, n - 1)
       IN  shorter \cup
           {Append(q, x) : <<q, x>> \in
              {qx \in shorter \X S :
                 /\ Len(qx[1]) = n - 1
                 /\ \A i \in 1..Len(qx[1]) : qx[1][i] # qx[2]}}

\* the persona_prompts mappings
PersonaPromptSets ==
  {[i \in 1..Len(q) |-> <<q[i], PersonaPrompt(q[i])>>] :
     q \in DistinctSeqs(PersonaIds, MaxPersonas)}

Rubrics ==
  { <<>>,
    << <<"struktur_klarheit", 20>> >>,
    << <<"struktur_klarheit", 20>>, <<"passung_beispiele", 25>> >>,
    << <<"gesamt", 10>>, <<"kommunikation", 20>> >> }

TurnCounts == 0..MaxTurns

ParamSets ==
  { <<>>,
    << <<"persona", "best_case">> >>,
    << <<"persona", "weak">>, <<"temperature", 7>> >> }

Temperatures == {DefaultTemperature, 7}

\* the answers of the live service to the evaluation request
FullResult(gesamt) ==
  JDict(<< <<"scores", JDict(<< <<"struktur_klarheit", 70>>, <<"gesamt", gesamt>> >>)>>,
           <<"highlights", JList(<<"klar">>)>>,
           <<"improvements", JList(<<"mehr Beispiele">>)>>,
           <<"notes", JStr("ok")>> >>)
NoOverallResult ==
  JDict(<< <<"scores", JDict(<< <<"struktur_klarheit", 70>> >>)>>,
           <<"highlights", JList(<<"klar">>)>>,
           <<"improvements", JList(<<"mehr Beispiele">>)>>,
           <<"notes", JStr("ok")>> >>)
LiveEvalValues ==
  { FullResult(72), FullResult(60), FullResult(59),
    NoOverallResult,
    JDict(<< <<"highlights", JList(<<"klar">>)>>,
             <<"notes", JStr("ok")>> >>),
    JDict(<< <<"scores", JNull>> >>),
    JDict(<<>>),
    JList(<<>>) }
LiveEvalResponses ==
  {[exc |-> "none", json |-> TRUE, value |-> v] : v \in LiveEvalValues}
  \cup {[exc |-> "none", json |-> FALSE], [exc |-> "APIError"]}

\* the answers and the rubrics that the runs of batch_runner are checked with
BatchEvalResponses ==
  {[exc |-> "none", json |-> TRUE, value |-> v] :
     v \in {FullResult(72), FullResult(59)}}
  \cup {[exc |-> "none", json |-> FALSE], [exc |-> "APIError"]}
\* a rubric whose weight is no integer
MalformedRubric == << <<"kommunikation", "hoch">> >>
BatchRubrics ==
  { <<>>, << <<"struktur_klarheit", 20>>, <<"passung_beispiele", 25>> >>,
    MalformedRubric }

----------------------------------------------------------------------------
(* run_simulation and batch_runner, one step per backend use. *)

Greeting == "Hallo, willkommen."
Sentinel == "<simulate>"

\* (one history kept across the simulations of a batch)
InitialHistory_Shared(main_prompt) ==
  IF history = <<>>
  THEN << [role |-> "system", content |-> main_prompt],
          [role |-> "assistant", content |-> Greeting] >>
  ELSE history

\* history as run_simulation initialises it
InitialHistory(main_prompt) ==
  << [role |-> "system", content |-> main_prompt],
     [role |-> "assistant", content |-> Greeting] >>

\* (the learner asked without the conversation so far)
LearnerMessages_NoHistory(hist, test_persona_prompt) ==
  << [role |-> "system", content |-> test_persona_prompt],
     [role |-> "user", content |-> Sentinel] >>

\* history + [user_prompt, {"role": "user", "content": "<simulate>"}]
LearnerMessages(hist, test_persona_prompt) ==
  hist \o << [role |-> "system", content |-> test_persona_prompt],
             [role |-> "user", content |-> Sentinel] >>

\* (the evaluation request sent on the offline branch too)
EvaluationRequest_Always(mode, messages) == messages

\* what evaluate_summative sends to the service: client.responses.create is
\* reached on the live branch only
EvaluationRequest(mode, messages) == IF mode = "live" THEN messages ELSE <<>>

\* (the persona instruction and the sentinel passed to the interviewer too)
InterviewerMessages_WithPersona(hist, test_persona_prompt) ==
  hist \o << [role |-> "system", content |-> test_persona_prompt],
             [role |-> "user", content |-> Sentinel] >>

\* _llm_chat(history, ...): the interviewer is asked with the history alone
InterviewerMessages(hist, test_persona_prompt) == hist

\* the input of the evaluation request
EvaluationMessages(combined_text) ==
  << [role |-> "system",
      content |-> "Bewerte folgendes Transkript auf Basis der Rubrik."],
     [role |-> "user", content |-> combined_text] >>

ParamPersona(params) == DictGet(params, "persona", "unknown")
ParamTemperature(params) == DictGet(params, "temperature", DefaultTemperature)

\* SimulationResult(persona=persona, transcript=transcript, metadata=metadata)
SimulationResult(params, turns, tscript) ==
  [persona |-> ParamPersona(params),
   transcript |-> tscript,
   metadata |-> << <<"persona", ParamPersona(params)>>, <<"turns", turns>> >>]

NoReturn == [exc |-> "pending"]
NoSimulation == [persona |-> "", transcript |-> <<>>, metadata |-> <<>>]
NoArgs == [turns |-> 0]
NoAnswer == [exc |-> "unasked"]

\* an exception leaves every frame: nothing in the module catches it, wraps
\* it or attaches anything to it, so the caller receives it as it was raised
Raise(e) == pc' = "done" /\ ret' = [exc |-> e]

\* run_simulation returns result to caller
SimulationReturns(caller, result) ==
  IF caller = "run_simulation"
  THEN pc' = "done" /\ ret' = [exc |-> "none", value |-> result]
       /\ UNCHANGED simulation
  ELSE pc' = "evaluate" /\ simulation' = result /\ UNCHANGED ret

\* (a loop that runs once too often)
InRange_OffByOne(t, turns) == t <= turns

\* (a loop whose body runs before the count is tested)
InRange_DoWhile(t, turns) == t = 0 \/ t < turns

\* (a loop left one iteration early)
InRange_StopsEarly(t, turns) == t < turns - 1

\* for turn in range(turns): the body runs for t when
InRange(t, turns) == t < turns

\* (a result put in front of the list)
AppendResult_Prepend(res, evaluation) == <<evaluation>> \o res

\* results.append(evaluation)
AppendResult(res, evaluation) == Append(res, evaluation)

\* run_simulation up to its first backend call
Begin_run_simulation(caller, main_prompt, test_persona_prompt, turns, params) ==
  /\ sim' = [main_prompt |-> main_prompt,
             test_persona_prompt |-> test_persona_prompt,
             turns |-> turns, params |-> params]
  /\ turn' = 0
  /\ transcript' = <<>>
  /\ history' = InitialHistory(main_prompt)
  /\ IF InRange(0, turns)
     THEN pc' = "learner" /\ UNCHANGED <<ret, simulation>>
     ELSE SimulationReturns(caller, SimulationResult(params, turns, <<>>))

\* the log entry of one use of the backend
\* (answer: what the live service returned to an evaluation request)
CallRecord(kind, persona, iteration, o, messages, temperature, answer) ==
  [kind |-> kind, persona |-> persona, iteration |-> iteration,
   mode |-> o.mode, exc |-> o.exc, messages |-> messages,
   temperature |-> temperature,
   text |-> IF kind = "evaluate" THEN "" ELSE o.text,
   answer |-> IF kind = "evaluate" /\ o.mode = "live" THEN answer ELSE NoAnswer]

Call_run_simulation(main_prompt, test_persona_prompt, turns, params) ==
  /\ pc = "idle"
  /\ entry' = "run_simulation"
  /\ args' = [main_prompt |-> main_prompt,
              test_persona_prompt |-> test_persona_prompt,
              turns |-> turns, params |-> params]
  /\ Begin_run_simulation("run_simulation", main_prompt, test_persona_prompt,
                          turns, params)
  /\ UNCHANGED <<openai, envChanges, persona_i, results, calls, objects>>

Call_batch_runner(main_prompt, persona_prompts, rubric, turns) ==
  /\ pc = "idle"
  /\ entry' = "batch_runner"
  /\ args' = [main_prompt |-> main_prompt, persona_prompts |-> persona_prompts,
              rubric |-> rubric, turns |-> turns]
  /\ results' = <<>>
  /\ IF persona_prompts = <<>>
     THEN /\ pc' = "done"
          /\ ret' = [exc |-> "none", value |-> <<>>]
          /\ UNCHANGED <<persona_i, sim, turn, history, transcript, simulation>>
     ELSE /\ persona_i' = 1
          /\ Begin_run_simulation("batch_runner", main_prompt,
                                  persona_prompts[1][2], turns,
                                  << <<"persona", persona_prompts[1][1]>> >>)
  /\ UNCHANGED <<openai, envChanges, calls, objects>>

\* learner_input = _llm_chat(history + [user_prompt, <simulate>], temperature)
LearnerTurn ==
  /\ pc = "learner"
  /\ LET messages == LearnerMessages(history, sim.test_persona_prompt)
         temperature == ParamTemperature(sim.params)
     IN  \E o \in _llm_chat(messages, temperature, openai) :
           /\ calls' = Append(calls, CallRecord("learner", ParamPersona(sim.params),
                                                turn, o, messages, temperature, NoAnswer))
           /\ IF o.exc # "none"
              THEN Raise(o.exc) /\ UNCHANGED <<transcript, history>>
              ELSE /\ transcript' = Append(transcript,
                                           [role |-> "learner", content |-> o.text])
                   /\ history' = Append(history,
                                        [role |-> "user", content |-> o.text])
                   /\ pc' = "interviewer"
                   /\ UNCHANGED ret
  /\ UNCHANGED <<openai, envChanges, entry, args, sim, persona_i, turn,
                 simulation, results, objects>>

\* interviewer_reply = _llm_chat(history, temperature), then the next iteration
InterviewerTurn ==
  /\ pc = "interviewer"
  /\ LET messages == InterviewerMessages(history, sim.test_persona_prompt)
         temperature == ParamTemperature(sim.params)
     IN  \E o \in _llm_chat(messages, temperature, openai) :
           /\ calls' = Append(calls, CallRecord("interviewer", ParamPersona(sim.params),
                                                turn, o, messages, temperature, NoAnswer))
           /\ IF o.exc # "none"
              THEN Raise(o.exc) /\ UNCHANGED <<transcript, history, turn, simulation>>
              ELSE /\ transcript' = Append(transcript,
                                           [role |-> "assistant", content |-> o.text])
                   /\ history' = Append(history,
                                        [role |-> "assistant", content |-> o.text])
                   /\ turn' = turn + 1
                   /\ IF InRange(turn + 1, sim.turns)
                      THEN pc' = "learner" /\ UNCHANGED <<ret, simulation>>
                      ELSE SimulationReturns(entry,
                             SimulationResult(sim.params, sim.turns, transcript'))
  /\ UNCHANGED <<openai, envChanges, entry, args, sim, persona_i, results,
                 objects>>

\* evaluation = evaluate_summative(simulation.transcript, rubric, persona),
\* results.append(evaluation), then the next persona or the return
Evaluate ==
  /\ pc = "evaluate"
  /\ LET persona == args.persona_prompts[persona_i][1]
         messages == EvaluationMessages(CombinedText(simulation.transcript))
     IN  \E response \in BatchEvalResponses :
           LET o == evaluate_summative(simulation.transcript, args.rubric,
                                       persona, openai, response)
           IN  /\ calls' = Append(calls,
                     CallRecord("evaluate", persona, sim.turns, o,
                                EvaluationRequest(o.mode, messages),
                                DefaultTemperature, response))
               /\ objects' = ObjectsAfter(simulation.transcript, args.rubric,
                                          openai)
               /\ IF o.exc # "none"
                  THEN /\ Raise(o.exc)
                       /\ UNCHANGED <<results, persona_i, sim, turn, history,
                                      transcript, simulation>>
                  ELSE /\ results' = AppendResult(results, o.value)
                       /\ IF persona_i < Len(args.persona_prompts)
                          THEN /\ persona_i' = persona_i + 1
                               /\ Begin_run_simulation("batch_runner",
                                    args.main_prompt,
                                    args.persona_prompts[persona_i + 1][2],
                                    args.turns,
                                    << <<"persona",
                                         args.persona_prompts[persona_i + 1][1]>> >>)
                          ELSE /\ pc' = "done"
                               /\ ret' = [exc |-> "none", value |-> results']
                               /\ UNCHANGED <<persona_i, sim, turn, history,
                                              transcript, simulation>>
  /\ UNCHANGED <<openai, envChanges, entry, args>>

\* the environment: the library is installed or removed, the credentials are
\* set or unset, while a call is running or before it
EnvChange ==
  /\ pc # "done"
  /\ envChanges < MaxEnvChanges
  /\ \E lib \in LibStates \ {openai} : openai' = lib
  /\ envChanges' = envChanges + 1
  /\ UNCHANGED <<pc, entry, args, sim, persona_i, turn, history, transcript,
                 simulation, results, ret, calls, objects>>

Init ==
  /\ openai \in LibStates
  /\ envChanges = 0
  /\ pc = "idle"
  /\ entry = "none"
  /\ args = NoArgs
  /\ sim = NoArgs
  /\ persona_i = 0
  /\ turn = 0
  /\ history = <<>>
  /\ transcript = <<>>
  /\ simulation = NoSimulation
  /\ results = <<>>
  /\ ret = NoReturn
  /\ calls = <<>>
  /\ objects = NoObjects

\* the main prompts of the direct calls of run_simulation
RunMainPrompts == MainPrompts \cup {"Du bist Interviewer."}

Start_run_simulation ==
  \E main_prompt \in RunMainPrompts, p \in PersonaIds, turns \in TurnCounts,
     params \in ParamSets :
       Call_run_simulation(main_prompt, PersonaPrompt(p), turns, params)

Start_batch_runner ==
  \E main_prompt \in MainPrompts, persona_prompts \in PersonaPromptSets,
     rubric \in BatchRubrics, turns \in TurnCounts :
       Call_batch_runner(main_prompt, persona_prompts, rubric, turns)

Next ==
  \/ Start_run_simulation
  \/ Start_batch_runner
  \/ LearnerTurn
  \/ InterviewerTurn
  \/ Evaluate
  \/ EnvChange

Spec == Init /\ [][Next]_vars

----------------------------------------------------------------------------
(* _llm_chat called on its own: the message sequence args.messages is drawn *)
(* at the start; it and one other sequence are passed to _llm_chat several  *)
(* times, at different temperatures, while the environment may change.      *)

Roles == {"system", "user", "assistant"}
ChatContents == {"", "ab", Rep("x", OfflineCut - 1)}
ChatMessages ==
  {[role |-> "user", content |-> c] : c \in ChatContents}
  \cup {[role |-> r, content |-> "ab"] : r \in Roles \ {"user"}}
MessageSeqs == UNION {[1..k -> ChatMessages] : k \in 0..MaxMessages}
OtherMessages ==
  << [role |-> "system", content |-> "sys"],
     [role |-> "user", content |-> Rep("x", OfflineCut - 1)],
     [role |-> "assistant", content |-> Rep("y", OfflineCut)],
     [role |-> "user", content |-> "ab"] >>

Call_llm_chat(messages, temperature) ==
  /\ pc = "idle"
  /\ Len(calls) < MaxChatCalls
  /\ \E o \in _llm_chat(messages, temperature, openai) :
       /\ calls' = Append(calls, CallRecord("chat", "", Len(calls), o,
                                            messages, temperature, NoAnswer))
       /\ ret' = IF o.exc = "none" THEN [exc |-> "none", value |-> o.text]
                 ELSE [exc |-> o.exc]
  /\ entry' = "_llm_chat"
  /\ UNCHANGED <<openai, envChanges, pc, args, sim, persona_i, turn, history,
                 transcript, simulation, results, objects>>

InitChat ==
  /\ openai \in LibStates
  /\ envChanges = 0
  /\ pc = "idle"
  /\ entry = "none"
  /\ args \in {[messages |-> m] : m \in MessageSeqs}
  /\ sim = NoArgs
  /\ persona_i = 0
  /\ turn = 0
  /\ history = <<>>
  /\ transcript = <<>>
  /\ simulation = NoSimulation
  /\ results = <<>>
  /\ ret = NoReturn
  /\ calls = <<>>
  /\ objects = NoObjects

Start_llm_chat ==
  \E messages \in {args.messages, OtherMessages}, temperature \in Temperatures :
    Call_llm_chat(messages, temperature)

NextChat ==
  \/ Start_llm_chat
  \/ EnvChange

SpecChat == InitChat /\ [][NextChat]_vars

----------------------------------------------------------------------------
(* evaluate_summative called on its own, on transcripts whose rendered      *)
(* length runs over the multiples of 100 up to 100 * MaxHundreds.           *)

\* with the 9 characters of "learner: " the first line has 100 * k - 1 or
\* 100 * k characters
EvalContents ==
  {""} \cup {Rep("x", ScoreStep * k - 10) : k \in 1..MaxHundreds}
       \cup {Rep("x", ScoreStep * k - 9) : k \in 1..MaxHundreds}

EvalTranscript(first, n) ==
  [i \in 1..n |->
     IF i = 1 THEN [role |-> "learner", content |-> first]
     ELSE IF i % 2 = 0 THEN [role |-> "assistant", content |-> "Gut."]
     ELSE [role |-> "learner", content |-> "ab"]]

EvalTranscripts ==
  {<<>>} \cup {EvalTranscript(c, n) : c \in EvalContents, n \in 1..MaxEvalTurns}

Call_evaluate_summative(tscript, rubric, persona) ==
  /\ pc = "idle"
  /\ entry' = "evaluate_summative"
  /\ args' = [transcript |-> tscript, rubric |-> rubric, persona |-> persona]
  /\ \E response \in LiveEvalResponses :
       LET o == evaluate_summative(tscript, rubric, persona, openai, response)
       IN  /\ calls' = <<CallRecord("evaluate", persona, 0, o,
                           EvaluationRequest(o.mode,
                             EvaluationMessages(CombinedText(tscript))),
                           DefaultTemperature, response)>>
           /\ ret' = o
  /\ objects' = ObjectsAfter(tscript, rubric, openai)
  /\ pc' = "done"
  /\ UNCHANGED <<openai, envChanges, sim, persona_i, turn, history, transcript,
                 simulation, results>>

Start_evaluate_summative ==
  \E tscript \in EvalTranscripts, rubric \in Rubrics, persona \in PersonaIds :
    Call_evaluate_summative(tscript, rubric, persona)

NextEval == Start_evaluate_summative

SpecEval == Init /\ [][NextEval]_vars

----------------------------------------------------------------------------
(* services/diff.py: JsonDiffer.  A payload is a JSON value as above, with  *)
(* [t |-> "int", n |-> i] for the integer i and [t |-> "bool", n |-> b]     *)
(* for a boolean, b being 1 for True and 0 for False as in Python.          *)

JInt(i) == [t |-> "int", n |-> i]
JTrue == [t |-> "bool", n |-> 1]

\* the keys of a payload, listed in the order sorted() gives them
KeyNames == <<"message", "name", "tag">>
DiffKeys == {KeyNames[i] : i \in 1..Min(MaxDiffKeys, Len(KeyNames))}
DiffValues == {JNull, JInt(1), JTrue, JStr("Old")}

\* the dicts over DiffKeys, in every insertion order
DiffDicts ==
  UNION { { [i \in 1..Len(ks) |-> <<ks[i], vs[i]>>] :
              vs \in [1..Len(ks) -> DiffValues] } :
          ks \in DistinctSeqs(DiffKeys, MaxDiffKeys) }

\* what the caller passes for old and for new: a dict or None
DiffArgs == {JNull} \cup {JDict(d) : d \in DiffDicts}

\* x or {}
OrEmptyDict(x) == IF x.t = "null" \/ x.v = <<>> THEN <<>> ELSE x.v

\* JsonDiffer.__init__
JsonDiffer(old, new) == [old |-> OrEmptyDict(old), new |-> OrEmptyDict(new)]

\* old_value == new_value on two payload values: Python compares numbers,
\* booleans among them, by their numeric value
PyEq(x, y) ==
  IF x.t \in {"int", "bool"} /\ y.t \in {"int", "bool"} THEN x.n = y.n
  ELSE x = y

\* sorted(keys)
Sorted(keys) == SelectSeq(KeyNames, LAMBDA k : k \in keys)

\* DiffChange(path=key, old=old_value, new=new_value)
DiffChange(self, key) ==
  [path |-> key, old |-> DictGet(self.old, key, JNull),
   new |-> DictGet(self.new, key, JNull)]

\* the loop body of diff() appends change unless old_value == new_value
Changed(change) == ~PyEq(change.old, change.new)

\* JsonDiffer.diff
diff(self) ==
  LET keys == {self.old[i][1] : i \in 1..Len(self.old)}
                \cup {self.new[i][1] : i \in 1..Len(self.new)}
      sorted == Sorted(keys)
      all == [i \in 1..Len(sorted) |-> DiffChange(self, sorted[i])]
  IN  SelectSeq(all, Changed)

\* json.dumps(value, ensure_ascii=False)
json_dumps(value) ==
  IF value.t = "null" THEN "null"
  ELSE IF value.t = "bool" THEN (IF value.n = 1 THEN "true" ELSE "false")
  ELSE IF value.t = "int" THEN ToString(value.n)
  ELSE "\"" \o value.v \o "\""

NoDifferences == "Keine Unterschiede zur letzten gespeicherten Version."

\* JsonDiffer.render
render(self) ==
  IF diff(self) = <<>> THEN NoDifferences
  ELSE LET changes == diff(self)
           lines == <<"Änderungen:">> \o
             [i \in 1..Len(changes) |->
                "- " \o changes[i].path \o ": " \o json_dumps(changes[i].old)
                  \o " → " \o json_dumps(changes[i].new)]
       IN  Join("\n", lines)

Call_diff(old, new) ==
  /\ pc = "idle"
  /\ entry' = "diff"
  /\ args' = [old |-> old, new |-> new]
  /\ ret' = [exc |-> "none", value |-> diff(JsonDiffer(old, new))]
  /\ pc' = "done"
  /\ UNCHANGED <<openai, envChanges, sim, persona_i, turn, history, transcript,
                 simulation, results, calls, objects>>

Call_render(old, new) ==
  /\ pc = "idle"
  /\ entry' = "render"
  /\ args' = [old |-> old, new |-> new]
  /\ ret' = [exc |-> "none", value |-> render(JsonDiffer(old, new))]
  /\ pc' = "done"
  /\ UNCHANGED <<openai, envChanges, sim, persona_i, turn, history, transcript,
                 simulation, results, calls, objects>>

Start_diff ==
  /\ pc = "idle"
  /\ \E old \in DiffArgs, new \in DiffArgs : Call_diff(old, new)

Start_render ==
  /\ pc = "idle"
  /\ \E old \in DiffArgs, new \in DiffArgs : Call_render(old, new)

NextDiff ==
  \/ Start_diff
  \/ Start_render

\* JsonDiffer does not use the backend
InitDiff == Init /\ openai = "missing"

SpecDiff == InitDiff /\ [][NextDiff]_vars

----------------------------------------------------------------------------
(* services/validation.py: validate_scenario_json.  The schema file is an   *)
(* input: it is absent, or it holds a JSON object, here a record with the   *)
(* keys "required" and "properties" where the object has them; the rules of *)
(* a property are a record with the keys "type" and "minLength" where the   *)
(* rules have them.                                                         *)

FieldNames == <<"tag", "name", "message">>
Fields == {FieldNames[i] : i \in 1..Min(MaxFields, Len(FieldNames))}

\* the characters str.strip() removes
Whitespace == {" ", "\n"}

\* (a strip that removes nothing)
strip_Nothing(s) == s

\* s.strip()
RECURSIVE strip(_)
strip(s) ==
  IF Len(s) = 0 THEN s
  ELSE IF SubSeq(s, 1, 1) \in Whitespace THEN strip(SubSeq(s, 2, Len(s)))
  ELSE IF SubSeq(s, Len(s), Len(s)) \in Whitespace
  THEN strip(SubSeq(s, 1, Len(s) - 1))
  ELSE s

\* isinstance(value, str)
IsStr(value) == value.t = "str"

\* the values a payload field is drawn from
FieldValues == {JStr(""), JStr(" \n"), JStr(" a "), JStr("Hallo"), JInt(1)}

\* the payloads: each field absent or present with one of the values
Payloads ==
  UNION { { [i \in 1..Len(ks) |-> <<ks[i], vs[i]>>] :
              vs \in [1..Len(ks) -> FieldValues] } :
          ks \in {SelectSeq(FieldNames, LAMBDA f : f \in S) : S \in SUBSET Fields} }

\* the rules of one property
RuleSets ==
  { [type |-> "string"], [type |-> "string", minLength |-> 2],
    [type |-> "integer"] }

\* the "properties" objects
PropertySets ==
  UNION { { [i \in 1..Len(ks) |-> <<ks[i], rs[i]>>] :
              rs \in [1..Len(ks) -> RuleSets] } :
          ks \in {SelectSeq(FieldNames, LAMBDA f : f \in S) : S \in SUBSET Fields} }

RequiredLists ==
  {SelectSeq(FieldNames, LAMBDA f : f \in S) : S \in SUBSET Fields}

Schemas ==
  {[required |-> r, properties |-> ps] : r \in RequiredLists, ps \in PropertySets}
  \cup {[properties |-> ps] : ps \in PropertySets}
  \cup {[required |-> r] : r \in RequiredLists}

\* what is found at schema_path
SchemaFiles ==
  {[exists |-> FALSE]} \cup {[exists |-> TRUE, content |-> s] : s \in Schemas}

\* d.get(key, default) on a schema object or on the rules of a property
RecGet(d, key, default) == IF key \in DOMAIN d THEN d[key] ELSE default

\* load_schema(schema_path)
load_schema(file) ==
  IF ~file.exists THEN [exc |-> "FileNotFoundError"]
  ELSE [exc |-> "none", value |-> file.content]

\* the body of the loop over the required fields
RequiredErrors(payload, field) ==
  IF ~DictHas(payload, field) THEN <<field \o ": missing required field">>
  ELSE LET value == DictGet(payload, field, JNull)
       IN  IF IsStr(value) /\ Len(strip(value.v)) = 0
           THEN <<field \o ": must not be empty">>
           ELSE <<>>

\* the body of the loop over the properties
PropertyErrors(payload, field, rules) ==
  IF ~DictHas(payload, field) THEN <<>>
  ELSE LET value == DictGet(payload, field, JNull)
       IN  (IF RecGet(rules, "type", "") = "string" /\ ~IsStr(value)
            THEN <<field \o ": expected string">> ELSE <<>>)
           \o
           (IF IsStr(value) /\ RecGet(rules, "minLength", 0) > 0
               /\ Len(strip(value.v)) < rules.minLength
            THEN <<field \o ": must have at least "
                     \o ToString(rules.minLength) \o " characters">>
            ELSE <<>>)

\* the concatenation of a sequence of sequences
RECURSIVE Flatten(_)
Flatten(ss) == IF ss = <<>> THEN <<>> ELSE ss[1] \o Flatten(Tail(ss))

\* validate_scenario_json(payload, schema_path)
validate_scenario_json(payload, file) ==
  LET loaded == load_schema(file)
  IN  IF loaded.exc # "none" THEN [exc |-> loaded.exc]
      ELSE LET schema == loaded.value
               required == RecGet(schema, "required", <<>>)
               properties == RecGet(schema, "properties", <<>>)
               errors ==
                 Flatten([i \in 1..Len(required) |->
                            RequiredErrors(payload, required[i])])
                 \o Flatten([i \in 1..Len(properties) |->
                               PropertyErrors(payload, properties[i][1],
                                              properties[i][2])])
           IN  [exc |-> "none",
                value |-> [is_valid |-> (errors = <<>>), errors |-> errors]]

Call_validate_scenario_json(payload, file) ==
  /\ pc = "idle"
  /\ entry' = "validate_scenario_json"
  /\ args' = [payload |-> payload, schema |-> file]
  /\ ret' = validate_scenario_json(payload, file)
  /\ pc' = "done"
  /\ UNCHANGED <<openai, envChanges, sim, persona_i, turn, history, transcript,
                 simulation, results, calls, objects>>

Start_validate_scenario_json ==
  /\ pc = "idle"
  /\ \E payload \in Payloads, file \in SchemaFiles :
       Call_validate_scenario_json(payload, file)

NextValidate == Start_validate_scenario_json

SpecValidate == InitDiff /\ [][NextValidate]_vars

----------------------------------------------------------------------------
(* services/validation.py: prompt_lint. *)

LengthLimit == 6000
LengthWarn == 4000

UpperCase == "ABCDEFGHIJKLMNOPQRSTUVWXYZ"
LowerCase == "abcdefghijklmnopqrstuvwxyz"

UpperChars == {SubSeq(UpperCase, i, i) : i \in 1..Len(UpperCase)}

\* the lower-case form of one character
LowerChar(c) ==
  IF c \in UpperChars
  THEN LET i == CHOOSE j \in 1..Len(UpperCase) : SubSeq(UpperCase, j, j) = c
       IN  SubSeq(LowerCase, i, i)
  ELSE c

\* s.lower()
RECURSIVE lower(_)
lower(s) ==
  IF Len(s) = 0 THEN s
  ELSE IF Len(s) = 1 THEN LowerChar(s)
  ELSE lower(SubSeq(s, 1, Len(s) \div 2))
         \o lower(SubSeq(s, Len(s) \div 2 + 1, Len(s)))

\* sub in s
Contains(s, sub) ==
  \E i \in 1..(Len(s) - Len(sub) + 1) : SubSeq(s, i, i + Len(sub) - 1) = sub

\* PromptLintIssue(severity=severity, message=message)
PromptLintIssue(severity, message) == [severity |-> severity, message |-> message]

\* (a limit that counts the limit itself as too long)
TooLong_Inclusive(n) == n >= LengthLimit

\* len(prompt_text) > limit
TooLong(n) == n > LengthLimit

\* _lint_length
_lint_length(prompt_text) ==
  IF TooLong(Len(prompt_text))
  THEN <<PromptLintIssue("error",
           "Prompt too long (" \o ToString(Len(prompt_text))
             \o " chars). Target < " \o ToString(LengthLimit) \o " chars.")>>
  ELSE IF Len(prompt_text) > LengthWarn
  THEN <<PromptLintIssue("warning",
           "Prompt length " \o ToString(Len(prompt_text))
             \o " chars. Consider trimming for latency.")>>
  ELSE <<>>

Keywords == <<"rolle", "verhalten", "format">>

\* _lint_role
_lint_role(prompt_text) ==
  LET lowered == lower(prompt_text)
      missing == SelectSeq(Keywords,
                   LAMBDA kw : ~Contains(lowered, lower(kw)))
  IN  IF missing # <<>>
      THEN <<PromptLintIssue("warning",
               "Prompt is missing recommended sections: "
                 \o Join(", ", missing) \o ".")>>
      ELSE <<>>

Risky == {"never provide medical", "never provide legal"}

\* _lint_safety
_lint_safety(prompt_text) ==
  LET lowered == lower(prompt_text)
  IN  IF \E phrase \in Risky : Contains(lowered, phrase) THEN <<>>
      ELSE IF ~Contains(lowered, "sicher") /\ ~Contains(lowered, "respekt")
      THEN <<PromptLintIssue("warning",
               "Prompt should mention safety tone (e.g., 'sei respektvoll').")>>
      ELSE <<>>

\* the issues in the order the three lint functions yield them
LintIssues(prompt_text) ==
  _lint_length(prompt_text) \o _lint_role(prompt_text)
    \o _lint_safety(prompt_text)

\* prompt_lint
prompt_lint(prompt_text) ==
  LET issues == LintIssues(prompt_text)
  IN  [errors |-> SelectSeq(issues, LAMBDA issue : issue.severity = "error"),
       warnings |-> SelectSeq(issues, LAMBDA issue : issue.severity # "error")]

\* the prompts: a head naming some of the sections and a safety phrase or
\* none, alone or filled up to a length around the two thresholds
SectionTexts == <<"Rolle:", "verhalten", "FORMAT">>
SafetyTexts == {"", "sei respektvoll", "Sicherheit", "Never provide medical advice"}
PromptHeads ==
  {Join(" ", SelectSeq(SectionTexts, LAMBDA t : t \in S) \o
             (IF safety = "" THEN <<>> ELSE <<safety>>)) :
     S \in SUBSET {SectionTexts[i] : i \in 1..Len(SectionTexts)},
     safety \in SafetyTexts}
PromptLengths ==
  {LengthWarn + d : d \in -MaxOver..MaxOver}
    \cup {LengthLimit + d : d \in -MaxOver..MaxOver}
Prompts ==
  PromptHeads \cup
    {h \o Rep("x", n - Len(h)) : h \in PromptHeads, n \in PromptLengths}

Call_prompt_lint(prompt_text) ==
  /\ pc = "idle"
  /\ entry' = "prompt_lint"
  /\ args' = [prompt_text |-> prompt_text]
  /\ ret' = [exc |-> "none", value |-> prompt_lint(prompt_text)]
  /\ pc' = "done"
  /\ UNCHANGED <<openai, envChanges, sim, persona_i, turn, history, transcript,
                 simulation, results, calls, objects>>

Start_prompt_lint ==
  /\ pc = "idle"
  /\ \E prompt_text \in Prompts : Call_prompt_lint(prompt_text)

NextLint == Start_prompt_lint

SpecLint == InitDiff /\ [][NextLint]_vars

----------------------------------------------------------------------------
(* app/pages/CI.py: the regression page.  One run of the page script, one   *)
(* step per scenario of the loop; batch_runner is taken by what it returns: *)
(* one Evaluation per persona in the order of persona_prompts, each one that *)
(* evaluate_summative can return, or an exception.                          *)

\* _persona_prompts()
CIPersonaPrompts ==
  [i \in 1..Len(PersonaNames) |->
     <<PersonaNames[i],
       "Rolle: Du simulierst Bewerber:innen. Persona: " \o PersonaNames[i]
         \o ". Halte dich an die Beschreibung aus der Dokumentation.">>]

\* rubric of the sidebar
CIRubric ==
  << <<"struktur_klarheit", 20>>, <<"passung_beispiele", 25>>,
     <<"fachliche_korrektheit", 20>>, <<"kommunikation", 20>>,
     <<"reflexion", 15>> >>

\* the default of the slider "Turns pro Simulation"
CITurns == 3

\* the Evaluations of one persona that the runs of the page are checked with:
\* an offline one, a live one below the pass mark, a live one without the
\* overall score
EvaluationKinds == {"offline", "below", "no_overall"}
EvaluationOf(kind, persona) ==
  IF kind = "offline" THEN OfflineEvaluation("", CIRubric, persona).value
  ELSE IF kind = "below"
  THEN LiveEvaluation([exc |-> "none", json |-> TRUE, value |-> FullResult(59)],
                      persona).value
  ELSE LiveEvaluation([exc |-> "none", json |-> TRUE, value |-> NoOverallResult],
                      persona).value

\* what batch_runner(main_prompt, persona_prompts, rubric, turns) can do
BatchOutcomes(persona_prompts) ==
  {[exc |-> "APIError"]} \cup
  {[exc |-> "none",
    value |-> [i \in 1..Len(persona_prompts) |->
                 EvaluationOf(kinds[i], persona_prompts[i][1])]] :
     kinds \in [1..Len(persona_prompts) -> EvaluationKinds]}

\* the scenarios that _load_scenarios can return: dicts with or without the
\* keys "tag" and "main_prompt"
ScenarioTags == {JStr("bewerbung_junior_data_analyst")}
ScenarioPrompts == {JNull, JStr(""), JStr("sys")}
ScenarioDicts ==
  {(IF tag = JNull THEN <<>> ELSE << <<"tag", tag>> >>) \o
   (IF mp = [t |-> "absent"] THEN <<>> ELSE << <<"main_prompt", mp>> >>) :
     tag \in ScenarioTags \cup {JNull},
     mp \in ScenarioPrompts \cup {[t |-> "absent"]}}

\* the lists of at most n scenarios
RECURSIVE ScenarioLists(_)
ScenarioLists(n) ==
  IF n = 0 THEN {<<>>}
  ELSE ScenarioLists(n - 1) \cup
       {Append(l, s) : l \in {x \in ScenarioLists(n - 1) : Len(x) = n - 1},
                       s \in ScenarioDicts}

\* x or ""
OrEmptyStr(x) == IF x.t = "null" \/ x.v = "" THEN "" ELSE x.v

\* (only a scenario without the key counted as having no main prompt)
MainPromptOf_KeyOnly(scenario) ==
  IF DictHas(scenario, "main_prompt")
  THEN (IF DictGet(scenario, "main_prompt", JNull).t = "null" THEN "None"
        ELSE IF DictGet(scenario, "main_prompt", JNull).v = "" THEN "(leer)"
        ELSE DictGet(scenario, "main_prompt", JNull).v)
  ELSE ""

\* main_prompt = scenario.get("main_prompt") or ""
MainPromptOf(scenario) == OrEmptyStr(DictGet(scenario, "main_prompt", JNull))

\* the row appended for eval_result
ReportRow(scenario, eval_result) ==
  [scenario |-> DictGet(scenario, "tag", JStr("unknown")).v,
   persona |-> eval_result.persona,
   score |-> ToString(DictGet(eval_result.scores, "gesamt", 0)),
   passed |-> IF eval_result.passed THEN "yes" ELSE "no"]

\* the log entry of one batch_runner call of the page
BatchCall(i, main_prompt, o) ==
  [kind |-> "batch_runner", scenario_i |-> i, main_prompt |-> main_prompt,
   persona_prompts |-> CIPersonaPrompts, rubric |-> CIRubric,
   turns |-> CITurns, exc |-> o.exc,
   returned |-> IF o.exc = "none" THEN o.value ELSE <<>>]

\* the script run without a click on "Regression starten"
NoClick(scenarios) ==
  /\ pc = "idle"
  /\ entry' = "CI"
  /\ args' = [scenarios |-> scenarios, turns |-> CITurns, clicked |-> FALSE]
  /\ pc' = "done"
  /\ ret' = [exc |-> "none", value |-> [written |-> FALSE, shown |-> "nothing"]]
  /\ UNCHANGED <<openai, envChanges, sim, persona_i, turn, history, transcript,
                 simulation, results, calls, objects>>

\* the click: rows = []
Click(scenarios) ==
  /\ pc = "idle"
  /\ entry' = "CI"
  /\ args' = [scenarios |-> scenarios, turns |-> CITurns, clicked |-> TRUE]
  /\ sim' = [scenario_i |-> 1]
  /\ results' = <<>>
  /\ pc' = "scenario"
  /\ UNCHANGED <<openai, envChanges, persona_i, turn, history, transcript,
                 simulation, ret, calls, objects>>

\* one iteration of: for scenario in scenarios
ScenarioStep ==
  /\ pc = "scenario"
  /\ sim.scenario_i <= Len(args.scenarios)
  /\ LET scenario == args.scenarios[sim.scenario_i]
         main_prompt == MainPromptOf(scenario)
     IN  IF main_prompt = ""
         THEN /\ sim' = [scenario_i |-> sim.scenario_i + 1]
              /\ UNCHANGED <<pc, ret, results, calls>>
         ELSE \E o \in BatchOutcomes(CIPersonaPrompts) :
                /\ calls' = Append(calls, BatchCall(sim.scenario_i, main_prompt, o))
                /\ IF o.exc # "none"
                   THEN Raise(o.exc) /\ UNCHANGED <<sim, results>>
                   ELSE /\ results' = results \o
                             [j \in 1..Len(o.value) |->
                                ReportRow(scenario, o.value[j])]
                        /\ sim' = [scenario_i |-> sim.scenario_i + 1]
                        /\ UNCHANGED <<pc, ret>>
  /\ UNCHANGED <<openai, envChanges, entry, args, persona_i, turn, history,
                 transcript, simulation, objects>>

\* after the loop: the report is written if rows, else the warning is shown
WriteReport ==
  /\ pc = "scenario"
  /\ sim.scenario_i > Len(args.scenarios)
  /\ pc' = "done"
  /\ ret' = IF results # <<>>
            THEN [exc |-> "none",
                  value |-> [written |-> TRUE, rows |-> results,
                             shown |-> "Bericht gespeichert"]]
            ELSE [exc |-> "none",
                  value |-> [written |-> FALSE,
                             shown |-> "Keine Szenarien mit Main Prompt gefunden."]]
  /\ UNCHANGED <<openai, envChanges, entry, args, sim, persona_i, turn, history,
                 transcript, simulation, results, calls, objects>>

Start_CI ==
  /\ pc = "idle"
  /\ \E scenarios \in ScenarioLists(MaxScenarios) :
       NoClick(scenarios) \/ Click(scenarios)

NextCI ==
  \/ Start_CI
  \/ ScenarioStep
  \/ WriteReport

SpecCI == InitDiff /\ [][NextCI]_vars

----------------------------------------------------------------------------
(* Properties of run_simulation and batch_runner (specification Spec). *)

\* the entries of the log made by the run_simulation call that produced a
\* SimulationResult for persona number k of the batch (k = 0: the direct call)
RECURSIVE ChatCallsOf(_, _)
ChatCallsOf(log, persona) ==
  IF log = <<>> THEN <<>>
  ELSE (IF log[1].kind \in {"learner", "interviewer"} /\ log[1].persona = persona
        THEN <<log[1]>> ELSE <<>>) \o ChatCallsOf(Tail(log), persona)

\* tscript is what a run of n iterations must return: 2n turns, learner and
\* assistant alternating from learner, each the output of the backend call
\* that generated it, none of them one of the two seed turns
TranscriptShape(tscript, n, main_prompt, made) ==
  /\ Len(tscript) = 2 * n
  /\ \A i \in 1..Len(tscript) :
       /\ tscript[i].role = (IF i % 2 = 1 THEN "learner" ELSE "assistant")
       /\ tscript[i] # [role |-> "system", content |-> main_prompt]
       /\ tscript[i] # [role |-> "assistant", content |-> Greeting]
  /\ Len(made) = Len(tscript)
  /\ \A i \in 1..Len(tscript) : tscript[i].content = made[i].text

\* C1: a run_simulation call with turn_count >= 0 that does not fail returns
\* exactly 2 * turn_count turns, alternating learner, assistant, ... from
\* learner, and the two seed turns of the history are not among them; the
\* same holds of the SimulationResult that batch_runner receives.
C1_TranscriptLength ==
  /\ (pc = "done" /\ entry = "run_simulation" /\ ret.exc = "none") =>
       TranscriptShape(ret.value.transcript, args.turns, args.main_prompt,
                       ChatCallsOf(calls, ParamPersona(args.params)))
  /\ (pc = "evaluate") =>
       TranscriptShape(simulation.transcript, args.turns, args.main_prompt,
                       ChatCallsOf(calls, simulation.persona))

C1_Witness ==
  /\ pc = "done" /\ entry = "run_simulation" /\ ret.exc = "none"
  /\ args.turns >= 2
  /\ Len(ret.value.transcript) = 2 * args.turns
  /\ \E i \in 1..Len(calls) : calls[i].mode = "live"
  /\ \E i \in 1..Len(calls) : calls[i].mode = "offline"

\* C2: batch_runner returns one Evaluation per entry of persona_prompts, the
\* k-th Evaluation carrying the k-th persona of the mapping's iteration
\* order.
C2_BatchOrder ==
  (pc = "done" /\ entry = "batch_runner" /\ ret.exc = "none") =>
    /\ Len(ret.value) = Len(args.persona_prompts)
    /\ \A k \in 1..Len(ret.value) :
         ret.value[k].persona = args.persona_prompts[k][1]

C2_Witness ==
  /\ pc = "done" /\ entry = "batch_runner" /\ ret.exc = "none"
  /\ Len(args.persona_prompts) >= 2
  /\ args.turns >= 1
  /\ Len(ret.value) = Len(args.persona_prompts)

----------------------------------------------------------------------------
(* Properties of evaluate_summative (specification SpecEval). *)

EvalReturned == pc = "done" /\ entry = "evaluate_summative" /\ ret.exc = "none"
EvalOffline == pc = "done" /\ entry = "evaluate_summative" /\ openai = "missing"

\* the answer of the live service parses to an object whose scores are absent
\* or are an object without the overall key
LacksOverall(answer) ==
  /\ answer.exc = "none"
  /\ answer.json
  /\ answer.value.t = "dict"
  /\ \/ ~DictHas(answer.value.v, "scores")
     \/ LET sc == DictGet(answer.value.v, "scores", JNull)
        IN  sc.t = "dict" /\ ~DictHas(sc.v, "gesamt")

\* C3: every Evaluation that evaluate_summative produces, offline or live,
\* has passed = (scores[gesamt] >= 60), a missing gesamt counting as 0; a
\* live result without the gesamt key yields passed = FALSE and no exception.
C3_PassedInvariant ==
  /\ EvalReturned =>
       /\ ret.value.passed = (DictGet(ret.value.scores, "gesamt", 0) >= 60)
       /\ (ret.mode = "offline" => DictHas(ret.value.scores, "gesamt"))
  /\ (pc = "done" /\ entry = "evaluate_summative" /\ calls[1].mode = "live"
      /\ LacksOverall(calls[1].answer)) =>
       /\ ret.exc = "none"
       /\ ~DictHas(ret.value.scores, "gesamt")
       /\ ret.value.passed = FALSE

C3_Witness ==
  /\ EvalReturned
  /\ ret.mode = "live"
  /\ LacksOverall(calls[1].answer)
  /\ DictHas(calls[1].answer.value.v, "scores")
  /\ ret.value.passed = FALSE

\* the number of characters of the transcript written as one "role: content"
\* line per turn, the lines separated by one newline character
RECURSIVE RenderedLength(_)
RenderedLength(tscript) ==
  IF tscript = <<>> THEN 0
  ELSE Len(tscript[1].role) + 2 + Len(tscript[1].content)
       + (IF Len(tscript) > 1 THEN 1 + RenderedLength(Tail(tscript)) ELSE 0)

Clamp(x, lo, hi) == IF x < lo THEN lo ELSE IF x > hi THEN hi ELSE x

\* C4: offline, with L the length of the rendered transcript, every rubric
\* category scores clamp(60 + floor(L / 100), 40, 95) and the overall score
\* is the integer average of the category scores; L = 0 gives overall 60 and
\* passed, L >= 3500 gives 95 for every category and overall.
C4_OfflineScore ==
  (EvalReturned /\ ret.mode = "offline") =>
    LET L == RenderedLength(args.transcript)
        base == Clamp(60 + (L \div 100), 40, 95)
        scores == ret.value.scores
        categories == {args.rubric[i][1] : i \in 1..Len(args.rubric)}
    IN  /\ \A c \in categories : DictHas(scores, c)
        /\ \A c \in categories \ {"gesamt"} : DictGet(scores, c, -1) = base
        /\ DictGet(scores, "gesamt", -1)
             = (Cardinality(categories) * base) \div Cardinality(categories)
        /\ (L = 0 => DictGet(scores, "gesamt", -1) = 60 /\ ret.value.passed)
        /\ (L >= 3500 => \A i \in 1..Len(scores) : scores[i][2] = 95)

C4_Witness ==
  /\ EvalReturned /\ ret.mode = "offline"
  /\ RenderedLength(args.transcript) = 3500
  /\ Len(args.rubric) = 2
  /\ DictGet(ret.value.scores, "gesamt", -1) = 95

\* C5: in offline mode evaluate_summative with a non-empty rubric returns an
\* Evaluation for every transcript, the empty one included; it never raises.
C5_OfflineTotal ==
  (EvalOffline /\ args.rubric # <<>>) =>
    /\ ret.exc = "none"
    /\ ret.value.persona = args.persona

C5_Witness ==
  /\ EvalOffline /\ args.rubric # <<>> /\ args.transcript = <<>>
  /\ ret.exc = "none"

\* C6: offline evaluate_summative called with the empty rubric does not raise
\* and returns an Evaluation with one default category, the overall score
\* and the verdict.
C6_EmptyRubricTolerated ==
  (EvalOffline /\ args.rubric = <<>>) =>
    /\ ret.exc = "none"
    /\ Len(ret.value.scores) = 2
    /\ DictHas(ret.value.scores, "gesamt")

----------------------------------------------------------------------------
(* Properties of the offline stub (specification SpecChat). *)

\* C7: two _llm_chat calls in offline mode with the same message sequence
\* return the same text, whatever their temperatures and whatever calls
\* were made before them.
C7_OfflineDeterminism ==
  \A i, j \in 1..Len(calls) :
    (/\ calls[i].mode = "offline" /\ calls[j].mode = "offline"
     /\ calls[i].messages = calls[j].messages)
    => calls[i].text = calls[j].text

C7_Witness ==
  /\ Len(calls) >= 2
  /\ calls[1].mode = "offline" /\ calls[2].mode = "offline"
  /\ calls[1].messages = calls[2].messages
  /\ calls[1].temperature # calls[2].temperature
  /\ Len(calls[1].text) = Len(OfflineMarker) + OfflineCut

\* the contents of the user messages, in message order
UserOnly(messages) ==
  LET users == SelectSeq(messages, LAMBDA m : m.role = "user")
  IN  [i \in 1..Len(users) |-> users[i].content]

\* the strings of parts written one after the other, a single space between
\* neighbours
RECURSIVE Spaced(_)
Spaced(parts) ==
  IF Len(parts) = 0 THEN ""
  ELSE IF Len(parts) = 1 THEN parts[1]
  ELSE Spaced(SubSeq(parts, 1, Len(parts) - 1)) \o " " \o parts[Len(parts)]

\* the strings of parts written one after the other
RECURSIVE Concat(_)
Concat(parts) == IF parts = <<>> THEN "" ELSE parts[1] \o Concat(Tail(parts))

FirstChars(str, n) == IF Len(str) <= n THEN str ELSE SubSeq(str, 1, n)

\* C8 as claimed: the stub returns the marker followed by the first 200
\* characters of the plain concatenation of the user messages' contents.
C8_PlainConcatenation ==
  \A i \in 1..Len(calls) :
    calls[i].mode = "offline" =>
      /\ calls[i].text
           = "[offline-response] " \o FirstChars(Concat(UserOnly(calls[i].messages)), 200)
      /\ Len(calls[i].text) <= Len("[offline-response] ") + 200

\* C8: the stub returns the marker "[offline-response] " followed by the
\* first 200 characters of the contents of the user messages, in message
\* order, joined by single spaces; system and assistant messages contribute
\* nothing and the result has at most marker length + 200 characters.
C8_SpacedConcatenation ==
  \A i \in 1..Len(calls) :
    calls[i].mode = "offline" =>
      /\ calls[i].text
           = "[offline-response] " \o FirstChars(Spaced(UserOnly(calls[i].messages)), 200)
      /\ Len(calls[i].text) <= Len("[offline-response] ") + 200

C8_Witness ==
  \E i \in 1..Len(calls) :
    /\ calls[i].mode = "offline"
    /\ Len(UserOnly(calls[i].messages)) = 2
    /\ Len(calls[i].messages) = 4
    /\ Len(Spaced(UserOnly(calls[i].messages))) > 200
    /\ Len(calls[i].text) = Len("[offline-response] ") + 200

----------------------------------------------------------------------------
(* Properties of the backend mode (specification Spec). *)

\* C9: within one batch_runner invocation every backend use, the learner and
\* interviewer completions and the evaluations alike, runs in the same mode,
\* all live or all offline, also when the availability of the live backend
\* changes during the run.
C9_SingleMode ==
  entry = "batch_runner" =>
    \A i, j \in 1..Len(calls) :
      (calls[i].mode \in {"live", "offline"} /\ calls[j].mode \in {"live", "offline"})
      => calls[i].mode = calls[j].mode

\* C10: a live backend that cannot be constructed, the library missing or
\* the construction of the client failing, makes the call run offline; no
\* backend use ends in the construction's exception and none reaches the
\* caller of run_simulation or batch_runner.
C10_ConstructionFallback ==
  /\ \A i \in 1..Len(calls) : calls[i].mode \in {"live", "offline"}
  /\ pc = "done" => ret.exc # "OpenAIError"

----------------------------------------------------------------------------
(* Boundary and failure behaviour of run_simulation and batch_runner       *)
(* (specification Spec).                                                    *)

\* C11: run_simulation with turn_count = 0 returns an empty transcript, does
\* not raise and issues no completion call, whatever the state of the
\* backend; inside batch_runner a run of 0 turns issues no completion either.
C11_ZeroTurns ==
  /\ (entry = "run_simulation" /\ args.turns = 0) =>
       /\ pc = "done"
       /\ ret.exc = "none"
       /\ ret.value.transcript = <<>>
       /\ calls = <<>>
  /\ (entry = "batch_runner" /\ args.turns = 0) =>
       \A i \in 1..Len(calls) : calls[i].kind = "evaluate"

C11_Witness ==
  /\ entry = "run_simulation" /\ args.turns = 0 /\ pc = "done"
  /\ openai = "broken"
  /\ ret.exc = "none" /\ ret.value.transcript = <<>>

\* C12: a backend call that fails in iteration i of the simulation of persona
\* p ends the simulation: it is the last backend use, nothing is returned,
\* and the exception that reaches the caller carries the persona id p and
\* the iteration index i.
C12_TaggedAbort ==
  \A k \in 1..Len(calls) :
    (calls[k].kind \in {"learner", "interviewer"} /\ calls[k].exc # "none") =>
      /\ k = Len(calls)
      /\ pc = "done"
      /\ ret.exc = calls[k].exc
      /\ "value" \notin DOMAIN ret
      /\ "persona" \in DOMAIN ret /\ ret.persona = calls[k].persona
      /\ "iteration" \in DOMAIN ret /\ ret.iteration = calls[k].iteration

\* C13: when the simulation or the evaluation of a persona fails, batch_runner
\* stops: the failing backend use is the last one, no list of Evaluations is
\* returned, and the exception that reaches the caller carries the id of the
\* failing persona.
C13_FailFast ==
  entry = "batch_runner" =>
    \A k \in 1..Len(calls) :
      calls[k].exc # "none" =>
        /\ k = Len(calls)
        /\ pc = "done"
        /\ ret.exc = calls[k].exc
        /\ "value" \notin DOMAIN ret
        /\ "persona" \in DOMAIN ret /\ ret.persona = calls[k].persona

----------------------------------------------------------------------------
(* The live path of evaluate_summative (specification SpecEval). *)

EvalLive == pc = "done" /\ entry = "evaluate_summative" /\ calls[1].mode = "live"

\* the service answered with text that is no JSON document
Unparseable(answer) == answer.exc = "none" /\ ~answer.json

\* C14: on the live path a response that cannot be parsed makes
\* evaluate_summative raise the parse exception, which no other failure
\* raises, and return no Evaluation; it is not turned into an Evaluation
\* with zero or empty scores.
C14_ParseFault ==
  EvalLive =>
    /\ Unparseable(calls[1].answer) =>
         ret.exc = "JSONDecodeError" /\ "value" \notin DOMAIN ret
    /\ ret.exc = "JSONDecodeError" => Unparseable(calls[1].answer)

C14_Witness ==
  /\ EvalLive
  /\ Unparseable(calls[1].answer)
  /\ ret.exc = "JSONDecodeError"

ResultFields == {"scores", "highlights", "improvements", "notes"}

\* the service answered with a JSON object that lacks one of the four fields
MissingField(answer) ==
  /\ answer.exc = "none"
  /\ answer.json
  /\ answer.value.t = "dict"
  /\ \E f \in ResultFields : ~DictHas(answer.value.v, f)

\* C15: on the live path a response that parses but lacks one of the fields
\* scores, highlights, improvements, notes is rejected with the parse
\* exception and no Evaluation is returned; only a missing overall score is
\* default-filled.
C15_ShapeRejected ==
  (EvalLive /\ MissingField(calls[1].answer)) =>
    /\ ret.exc = "JSONDecodeError"
    /\ "value" \notin DOMAIN ret

----------------------------------------------------------------------------
(* The rubric of batch_runner (specification Spec). *)

\* C16: batch_runner called with a malformed rubric, one with a non-integer
\* weight, fails with a configuration fault at entry: no backend use is made
\* for any persona and the call ends in that fault.
C16_RubricRejected ==
  (entry = "batch_runner" /\ args.rubric = MalformedRubric
   /\ args.persona_prompts # <<>>) =>
    /\ calls = <<>>
    /\ pc = "done" => ret.exc = "ConfigurationError"

----------------------------------------------------------------------------
(* C17 *)

\* the chat calls made for persona p before the k-th backend use that answered
OwnCalls(p, k) ==
  SelectSeq(SubSeq(calls, 1, k - 1),
            LAMBDA c : /\ c.persona = p
                       /\ c.kind \in {"learner", "interviewer"}
                       /\ c.exc = "none")

\* the turns those calls put into the history
OwnHistory(cs) ==
  [i \in 1..Len(cs) |->
     [role |-> IF cs[i].kind = "learner" THEN "user" ELSE "assistant",
      content |-> cs[i].text]]

\* the turns those calls put into the transcript
OwnTranscript(cs) ==
  [i \in 1..Len(cs) |->
     [role |-> IF cs[i].kind = "learner" THEN "learner" ELSE "assistant",
      content |-> cs[i].text]]

\* the instruction the batch holds for persona p
PromptOf(p) ==
  LET i == CHOOSE j \in 1..Len(args.persona_prompts) :
                    args.persona_prompts[j][1] = p
  IN  args.persona_prompts[i][2]

\* the position in the log of the evaluation of the i-th persona
EvaluationCall(i) ==
  CHOOSE k \in 1..Len(calls) :
    calls[k].kind = "evaluate" /\ calls[k].persona = args.persona_prompts[i][1]

\* C17: when a batch has ended, returning or raising, the log shows that the
\* messages of every chat call made for persona p were
\* the two seed turns followed by the turns p's own earlier calls produced
\* (and, for a learner call, p's own instruction and the sentinel), so they
\* hold no turn and no instruction of another persona; the evaluation request
\* and the Evaluation of p are computed from the transcript of p's own calls.
C17_PersonaIsolation ==
  (entry = "batch_runner" /\ pc = "done") =>
    /\ \A k \in 1..Len(calls) :
         LET c == calls[k]
             own == OwnCalls(c.persona, k)
             seeds == << [role |-> "system", content |-> args.main_prompt],
                         [role |-> "assistant", content |-> Greeting] >>
         IN  /\ c.kind = "interviewer" =>
                  c.messages = seeds \o OwnHistory(own)
             /\ c.kind = "learner" =>
                  c.messages = seeds \o OwnHistory(own) \o
                    << [role |-> "system", content |-> PromptOf(c.persona)],
                       [role |-> "user", content |-> Sentinel] >>
             /\ (c.kind = "evaluate" /\ c.mode = "live") =>
                  c.messages =
                    EvaluationMessages(CombinedText(OwnTranscript(own)))
    /\ \A i \in 1..Len(results) :
         LET p == args.persona_prompts[i][1]
             k == EvaluationCall(i)
             own == OwnCalls(p, k)
         IN  /\ results[i].persona = p
             /\ calls[k].mode = "offline" =>
                  results[i] =
                    OfflineEvaluation(CombinedText(OwnTranscript(own)),
                                      args.rubric, p).value

C17_Witness ==
  /\ entry = "batch_runner" /\ pc = "done" /\ ret.exc = "none"
  /\ Len(args.persona_prompts) = 2 /\ args.turns = 1
  /\ Len(ret.value) = 2
  /\ calls[1].mode = "live" /\ calls[2].mode = "live"
  /\ calls[6].mode = "offline"

----------------------------------------------------------------------------
(* The arguments of evaluate_summative (specification SpecEval). *)

\* C18: after evaluate_summative, on the offline and on the live path, the
\* transcript holds the same turns in the same order and the rubric the same
\* keys and weights as before the call; the overall key is not written into
\* the caller's rubric.
C18_InputsUnchanged ==
  (pc = "done" /\ entry = "evaluate_summative") =>
    /\ objects.transcript = args.transcript
    /\ objects.rubric = args.rubric

C18_Witness ==
  /\ pc = "done" /\ entry = "evaluate_summative"
  /\ calls[1].mode = "offline" /\ ret.exc = "none"
  /\ DictHas(ret.value.scores, "gesamt")
  /\ ~DictHas(args.rubric, "gesamt")
  /\ ~DictHas(objects.rubric, "gesamt")
  /\ Len(args.transcript) = MaxEvalTurns

\* the keys of a dict
DictKeys(d) == {d[i][1] : i \in 1..Len(d)}

\* C19: the scores of an offline Evaluation hold the overall key "gesamt" and
\* one entry for every rubric category and nothing else: their keys are the
\* rubric's categories plus "gesamt", each once, also for a rubric that has a
\* category named "gesamt".
C19_ScoreKeys ==
  (EvalReturned /\ calls[1].mode = "offline") =>
    /\ DictHas(ret.value.scores, "gesamt")
    /\ DictKeys(ret.value.scores) = DictKeys(args.rubric) \cup {"gesamt"}
    /\ Cardinality(DictKeys(ret.value.scores)) = Len(ret.value.scores)

C19_Witness ==
  /\ EvalReturned /\ calls[1].mode = "offline"
  /\ DictHas(args.rubric, "gesamt")
  /\ Len(args.rubric) = 2 /\ Len(ret.value.scores) = 2

----------------------------------------------------------------------------
(* JsonDiffer (specification SpecDiff). *)

\* the keys of what was passed for old or new (None has none)
ArgKeys(x) == IF x.t = "null" THEN {} ELSE DictKeys(x.v)

\* the value of key k differs between old and new: k is in only one of
\* them, or in both with values that do not compare equal
Differs(k) ==
  \/ (k \in ArgKeys(args.old)) # (k \in ArgKeys(args.new))
  \/ /\ k \in ArgKeys(args.old) \cap ArgKeys(args.new)
     /\ ~PyEq(DictGet(args.old.v, k, JNull), DictGet(args.new.v, k, JNull))

\* the position of key k in the sorted order
KeyRank(k) == CHOOSE i \in 1..Len(KeyNames) : KeyNames[i] = k

\* C20: diff() returns exactly one DiffChange, with the old and the new
\* value, for each key whose value differs between old and new, keys present
\* in only one of the two included, nothing for keys with equal values, and
\* the changes in ascending key order; render() returns the no-differences
\* text exactly when diff() is empty.
C20_DiffComplete ==
  /\ (pc = "done" /\ entry = "diff") =>
       LET changes == ret.value
       IN  /\ \A k \in ArgKeys(args.old) \cup ArgKeys(args.new) :
                Differs(k) =>
                  /\ Cardinality({i \in 1..Len(changes) :
                                    changes[i].path = k}) = 1
                  /\ \A i \in 1..Len(changes) :
                       changes[i].path = k =>
                         /\ changes[i].old =
                              DictGet(OrEmptyDict(args.old), k, JNull)
                         /\ changes[i].new =
                              DictGet(OrEmptyDict(args.new), k, JNull)
           /\ \A i \in 1..Len(changes) : Differs(changes[i].path)
           /\ \A i \in 1..Len(changes), j \in 1..Len(changes) :
                i < j => KeyRank(changes[i].path) < KeyRank(changes[j].path)
  /\ (pc = "done" /\ entry = "render") =>
       (ret.value = NoDifferences
          <=> diff(JsonDiffer(args.old, args.new)) = <<>>)

----------------------------------------------------------------------------
(* validate_scenario_json (specification SpecValidate). *)

ValidateReturned ==
  pc = "done" /\ entry = "validate_scenario_json" /\ ret.exc = "none"

\* the fields the schema of the call requires
RequiredOf(file) ==
  IF "required" \in DOMAIN file.content
  THEN {file.content.required[i] : i \in 1..Len(file.content.required)}
  ELSE {}

\* field is missing from the payload
IsMissing(payload, field) == \A i \in 1..Len(payload) : payload[i][1] # field

\* field is present as a string of no characters or of whitespace only
IsBlank(payload, field) ==
  \E i \in 1..Len(payload) :
    /\ payload[i][1] = field
    /\ payload[i][2].t = "str"
    /\ \A j \in 1..Len(payload[i][2].v) :
         SubSeq(payload[i][2].v, j, j) \in Whitespace

\* C21: validate_scenario_json returns is_valid = TRUE exactly when its error
\* list is empty; every required field that is missing from the payload or
\* present as an empty or whitespace-only string has an error of its own in
\* the list, so a payload with such a field is invalid with a non-empty list.
C21_RequiredFields ==
  ValidateReturned =>
    LET result == ret.value
        bad == {f \in RequiredOf(args.schema) :
                  IsMissing(args.payload, f) \/ IsBlank(args.payload, f)}
    IN  /\ result.is_valid <=> (result.errors = <<>>)
        /\ \A f \in bad :
             \E i \in 1..Len(result.errors) :
               result.errors[i] =
                 f \o (IF IsMissing(args.payload, f)
                       THEN ": missing required field"
                       ELSE ": must not be empty")
        /\ bad # {} => (~result.is_valid /\ result.errors # <<>>)

C21_Witness ==
  /\ ValidateReturned
  /\ \E f \in RequiredOf(args.schema) : IsBlank(args.payload, f)
  /\ \E f \in RequiredOf(args.schema) : IsMissing(args.payload, f)
  /\ \E i \in 1..Len(args.payload) : args.payload[i][2] = JStr(" \n")
  /\ ~ret.value.is_valid
  /\ Len(ret.value.errors) >= 2

----------------------------------------------------------------------------
(* prompt_lint (specification SpecLint). *)

LintReturned == pc = "done" /\ entry = "prompt_lint" /\ ret.exc = "none"

\* the issues of a list that the length rule wrote
LengthIssues(issues) ==
  {i \in 1..Len(issues) :
     \/ SubSeq(issues[i].message, 1, 15) = "Prompt too long"
     \/ SubSeq(issues[i].message, 1, 13) = "Prompt length"}

\* a prompt whose lower-case form is lowered names no section of that keyword
LacksKeyword(lowered, kw) == ~Contains(lowered, kw)

\* C22: prompt_lint puts every issue into exactly one list, errors holding
\* the issues of severity "error" and warnings all others; the length rule
\* gives one error for a prompt of more than 6000 characters, one warning for
\* more than 4000 and at most 6000, and nothing otherwise; a prompt lacking
\* one of the section keywords gets at least one warning.
C22_LintReport ==
  LintReturned =>
    LET report == ret.value
        n == Len(args.prompt_text)
        issues == LintIssues(args.prompt_text)
        lowered == lower(args.prompt_text)
    IN  /\ \A i \in 1..Len(report.errors) : report.errors[i].severity = "error"
        /\ \A i \in 1..Len(report.warnings) :
             report.warnings[i].severity # "error"
        /\ Len(report.errors) + Len(report.warnings) = Len(issues)
        /\ \A i \in 1..Len(issues) :
             LET issue == issues[i]
             IN  (\E j \in 1..Len(report.errors) : report.errors[j] = issue)
                   # (\E j \in 1..Len(report.warnings) :
                        report.warnings[j] = issue)
        /\ Cardinality(LengthIssues(report.errors)) = (IF n > 6000 THEN 1 ELSE 0)
        /\ Cardinality(LengthIssues(report.warnings))
             = (IF n > 4000 /\ n <= 6000 THEN 1 ELSE 0)
        /\ (\E k \in 1..Len(Keywords) : LacksKeyword(lowered, Keywords[k]))
             => Len(report.warnings) >= 1

C22_Witness ==
  /\ LintReturned
  /\ Len(args.prompt_text) = 6001
  /\ Len(ret.value.errors) = 1
  /\ Len(ret.value.warnings) = 1
  /\ LacksKeyword(lower(args.prompt_text), "verhalten")
  /\ ~LacksKeyword(lower(args.prompt_text), "rolle")

----------------------------------------------------------------------------
(* The call sequence of run_simulation and batch_runner (specification      *)
(* Spec).                                                                   *)

\* messages holds the output of the log entry c, as the turn of the history
\* that run_simulation makes of it
HoldsOutput(messages, c) ==
  \E m \in 1..Len(messages) :
    /\ messages[m].content = c.text
    /\ messages[m].role = (IF c.kind = "learner" THEN "user" ELSE "assistant")

\* C23: in a run_simulation call the backend calls come in pairs, one pair
\* per iteration, the learner-turn call first and the interviewer-turn call
\* second, and the calls of iteration i + 1 come after both calls of
\* iteration i have returned; a call with turn_count = n that does not fail
\* makes exactly 2 * n calls; the messages of each call hold the outputs of
\* all calls made before it.
C23_PairedCalls ==
  entry = "run_simulation" =>
    /\ \A k \in 1..Len(calls) :
         /\ calls[k].kind = (IF k % 2 = 1 THEN "learner" ELSE "interviewer")
         /\ calls[k].iteration = (k - 1) \div 2
         /\ calls[k].iteration < args.turns
         /\ k < Len(calls) => calls[k].exc = "none"
         /\ \A j \in 1..(k - 1) : HoldsOutput(calls[k].messages, calls[j])
    /\ (pc = "done" /\ ret.exc = "none") => Len(calls) = 2 * args.turns
    /\ pc = "interviewer" => Len(calls) % 2 = 1
    /\ pc = "learner" => Len(calls) % 2 = 0

C23_Witness ==
  /\ entry = "run_simulation" /\ pc = "done" /\ ret.exc = "none"
  /\ args.turns = 2 /\ Len(calls) = 4
  /\ calls[1].mode = "offline" /\ calls[4].mode = "live"
  /\ calls[4].messages[3].content = calls[1].text


\* the turn of the history that run_simulation makes of the log entry c
HistoryTurn(c) ==
  [role |-> IF c.kind = "learner" THEN "user" ELSE "assistant",
   content |-> c.text]

\* the history when the k-th call of a run_simulation call is made: the two
\* seed turns and the outputs of the calls before it
HistoryAt(k) ==
  << [role |-> "system", content |-> args.main_prompt],
     [role |-> "assistant", content |-> Greeting] >>
    \o [j \in 1..(k - 1) |-> HistoryTurn(calls[j])]

\* C24: the persona instruction and the sentinel "<simulate>" are passed to
\* learner-turn calls only and never enter the history: every interviewer
\* call gets exactly the history, the two seed turns followed by the
\* generated learner turns, as user turns, and assistant turns in order; a
\* learner call gets the history and then the instruction and the sentinel;
\* after k completed iterations the history has 2 + 2 * k entries.
C24_HistoryOnly ==
  /\ entry = "run_simulation" =>
       \A k \in 1..Len(calls) :
         /\ calls[k].kind = "interviewer" => calls[k].messages = HistoryAt(k)
         /\ calls[k].kind = "learner" =>
              calls[k].messages = HistoryAt(k) \o
                << [role |-> "system", content |-> args.test_persona_prompt],
                   [role |-> "user", content |-> Sentinel] >>
  /\ pc = "learner" => Len(history) = 2 + 2 * turn
  /\ pc = "interviewer" => Len(history) = 2 + 2 * turn + 1
  /\ pc = "evaluate" => Len(history) = 2 + 2 * args.turns
  /\ (pc = "done" /\ entry = "run_simulation" /\ ret.exc = "none") =>
       Len(history) = 2 + 2 * args.turns
  /\ entry \in {"run_simulation", "batch_runner"} =>
       \A i \in 1..Len(history) :
         /\ history[i].content # Sentinel
         /\ history[i].content # sim.test_persona_prompt

C24_Witness ==
  /\ entry = "run_simulation" /\ pc = "done" /\ ret.exc = "none"
  /\ args.turns = 2 /\ Len(history) = 6
  /\ calls[4].kind = "interviewer" /\ Len(calls[4].messages) = 5
  /\ calls[3].kind = "learner" /\ Len(calls[3].messages) = 6
  /\ calls[3].messages[6].content = Sentinel


\* the entries of the log made by completion calls, live or stub
CompletionCalls == {k \in 1..Len(calls) : calls[k].kind \in {"learner", "interviewer"}}

\* the entries of the log made by evaluations, and those of them that sent a
\* request to the service
EvaluationEntries == {k \in 1..Len(calls) : calls[k].kind = "evaluate"}
EvaluationCalls == {k \in EvaluationEntries : calls[k].messages # <<>>}

\* C25: evaluate_summative sends no request on the offline path and exactly
\* one on the live path; a batch over n personas with t turns that returns
\* has made 2 * t * n completion calls and one evaluation per persona, so
\* 2 * t * n + n calls when every evaluation was live and only the 2 * t * n
\* completions when every evaluation was offline.
C25_CallCounts ==
  entry = "batch_runner" =>
    /\ \A k \in EvaluationEntries :
         /\ calls[k].mode = "offline" => k \notin EvaluationCalls
         /\ calls[k].mode = "live" =>
              /\ k \in EvaluationCalls
              /\ calls[k].messages[2].role = "user"
              /\ Len(calls[k].messages) = 2
    /\ (pc = "done" /\ ret.exc = "none") =>
         LET n == Len(args.persona_prompts)
             t == args.turns
         IN  /\ Cardinality(CompletionCalls) = 2 * t * n
             /\ Cardinality(EvaluationEntries) = n
             /\ (\A k \in EvaluationEntries : calls[k].mode = "live") =>
                  Cardinality(CompletionCalls \cup EvaluationCalls)
                    = 2 * t * n + n
             /\ (\A k \in EvaluationEntries : calls[k].mode = "offline") =>
                  Cardinality(CompletionCalls \cup EvaluationCalls) = 2 * t * n

C25_Witness ==
  /\ entry = "batch_runner" /\ pc = "done" /\ ret.exc = "none"
  /\ Len(args.persona_prompts) = 2 /\ args.turns = 2
  /\ \A k \in 1..Len(calls) : calls[k].mode = "offline"
  /\ Cardinality(CompletionCalls) = 8
  /\ EvaluationCalls = {}
  /\ Len(ret.value) = 2

----------------------------------------------------------------------------
(* The offline verdict (specification SpecEval). *)

\* C26: offline, for every transcript and every non-empty rubric, the overall
\* score is between 60 and 95 inclusive and equals base_score whatever the
\* weights and the number of categories, and passed is TRUE: the lower clamp
\* bound 40 is never reached and no offline evaluation fails a persona.
C26_OfflineAlwaysPasses ==
  (pc = "done" /\ entry = "evaluate_summative" /\ calls[1].mode = "offline"
   /\ args.rubric # <<>>) =>
    /\ ret.exc = "none"
    /\ LET overall == DictGet(ret.value.scores, "gesamt", 0)
       IN  /\ 60 <= overall /\ overall <= 95
           /\ overall # 40
           /\ overall = BaseScore(CombinedText(args.transcript))
           /\ \A r \in Rubrics \ {<<>>} :
                DictGet(OfflineEvaluation(CombinedText(args.transcript), r,
                                          args.persona).value.scores,
                        "gesamt", 0) = overall
    /\ ret.value.passed = TRUE

C26_Witness ==
  /\ pc = "done" /\ entry = "evaluate_summative" /\ calls[1].mode = "offline"
  /\ Len(args.rubric) = 2 /\ args.rubric[1][2] # args.rubric[2][2]
  /\ ret.exc = "none"
  /\ DictGet(ret.value.scores, "gesamt", 0) = 61
  /\ ret.value.passed

----------------------------------------------------------------------------
(* Offline runs (specification Spec). *)

\* every backend use logged so far took the offline path
AllOffline == \A k \in 1..Len(calls) : calls[k].mode = "offline"

\* the text the stub makes of the contents of the user messages
StubText(user_contents) ==
  OfflineMarker \o Take(Join(" ", user_contents), OfflineCut)

\* the learner turns of an offline run of n iterations, computed from n alone
RECURSIVE StubLearnerTurns(_)
StubLearnerTurns(n) ==
  IF n = 0 THEN <<>>
  ELSE LET before == StubLearnerTurns(n - 1)
       IN  Append(before, StubText(Append(before, Sentinel)))

\* the transcript of an offline run of n iterations, computed from n alone
StubTranscript(n) ==
  [i \in 1..(2 * n) |->
     IF i % 2 = 1
     THEN [role |-> "learner", content |-> StubLearnerTurns(n)[(i + 1) \div 2]]
     ELSE [role |-> "assistant",
           content |-> StubText(SubSeq(StubLearnerTurns(n), 1, i \div 2))]]

\* C27: offline, the transcript that run_simulation returns depends on
\* turn_count only: it is the same for every main prompt, persona prompt and
\* temperature; and all personas of one offline batch_runner call get the
\* same scores and the same verdict.
C27_OfflineUniform ==
  /\ (entry = "run_simulation" /\ pc = "done" /\ ret.exc = "none"
      /\ AllOffline) =>
       ret.value.transcript = StubTranscript(args.turns)
  /\ (entry = "batch_runner" /\ AllOffline) =>
       /\ pc = "evaluate" => simulation.transcript = StubTranscript(args.turns)
       /\ \A i \in 1..Len(results), j \in 1..Len(results) :
            /\ results[i].scores = results[j].scores
            /\ results[i].passed = results[j].passed
       /\ (pc = "done" /\ ret.exc = "none") => ret.value = results

C27_Witness ==
  /\ entry = "run_simulation" /\ pc = "done" /\ ret.exc = "none" /\ AllOffline
  /\ args.turns = 2
  /\ args.main_prompt # "sys"
  /\ ParamTemperature(args.params) # DefaultTemperature
  /\ ret.value.transcript = StubTranscript(2)


\* the position of persona p in persona_prompts
PersonaIndex(p) ==
  CHOOSE i \in 1..Len(args.persona_prompts) : args.persona_prompts[i][1] = p

\* C28: batch_runner handles the personas one after another: in the log all
\* backend uses of a persona, those of its simulation and then its
\* evaluation, come before the first use of the next persona, and the
\* evaluation of a persona comes only after its simulation has made all its
\* 2 * turns calls and returned the complete transcript.
C28_PersonasSequential ==
  entry = "batch_runner" =>
    /\ \A k \in 1..(Len(calls) - 1) :
         /\ PersonaIndex(calls[k].persona) <= PersonaIndex(calls[k + 1].persona)
         /\ calls[k].kind = "evaluate" =>
              PersonaIndex(calls[k + 1].persona)
                = PersonaIndex(calls[k].persona) + 1
         /\ calls[k + 1].kind # "evaluate" /\ calls[k].kind # "evaluate" =>
              calls[k + 1].persona = calls[k].persona
    /\ \A k \in 1..Len(calls) :
         calls[k].kind = "evaluate" =>
           /\ Cardinality({j \in 1..(k - 1) :
                             /\ calls[j].persona = calls[k].persona
                             /\ calls[j].kind \in {"learner", "interviewer"}
                             /\ calls[j].exc = "none"}) = 2 * args.turns
           /\ \A j \in (k + 1)..Len(calls) :
                calls[j].persona # calls[k].persona
    /\ pc = "evaluate" =>
         /\ Len(simulation.transcript) = 2 * args.turns
         /\ simulation.persona = args.persona_prompts[persona_i][1]

C28_Witness ==
  /\ entry = "batch_runner" /\ pc = "done" /\ ret.exc = "none"
  /\ Len(args.persona_prompts) = 2 /\ args.turns = 1
  /\ Len(calls) = 6
  /\ calls[3].kind = "evaluate" /\ calls[3].persona = args.persona_prompts[1][1]
  /\ calls[4].kind = "learner" /\ calls[4].persona = args.persona_prompts[2][1]
  /\ args.persona_prompts[1][1] = "weak"

----------------------------------------------------------------------------
(* The regression page (specification SpecCI). *)

\* the scenario has a main prompt that is a non-empty string
HasMainPrompt(scenario) ==
  \E i \in 1..Len(scenario) :
    /\ scenario[i][1] = "main_prompt"
    /\ scenario[i][2].t = "str"
    /\ scenario[i][2].v # ""

\* the rows that the Evaluations returned by the first k calls must give
RECURSIVE RowsOfCalls(_)
RowsOfCalls(k) ==
  IF k = 0 THEN <<>>
  ELSE RowsOfCalls(k - 1) \o
       [j \in 1..Len(calls[k].returned) |->
          LET e == calls[k].returned[j]
              s == args.scenarios[calls[k].scenario_i]
          IN  [scenario |-> IF \E i \in 1..Len(s) : s[i][1] = "tag"
                            THEN s[CHOOSE i \in 1..Len(s) : s[i][1] = "tag"][2].v
                            ELSE "unknown",
               persona |-> CIPersonaPrompts[j][1],
               score |-> IF \E i \in 1..Len(e.scores) : e.scores[i][1] = "gesamt"
                         THEN ToString(e.scores[CHOOSE i \in 1..Len(e.scores) :
                                                  e.scores[i][1] = "gesamt"][2])
                         ELSE "0",
               passed |-> IF e.passed THEN "yes" ELSE "no"]]

\* C29: after the click the page calls batch_runner once for each loaded
\* scenario with a non-empty main_prompt, in scenario order, and never for a
\* scenario whose main_prompt is missing or empty; the rows are one per
\* returned Evaluation, in scenario order and within a scenario in persona
\* order, with passed "yes" exactly for a passed Evaluation and the overall
\* score, 0 when the overall key is missing, as score; a report is written
\* from exactly these rows, and none when there is no row.
C29_RegressionReport ==
  (entry = "CI" /\ args.clicked) =>
    /\ \A k \in 1..Len(calls) :
         /\ HasMainPrompt(args.scenarios[calls[k].scenario_i])
         /\ calls[k].main_prompt
              = DictGet(args.scenarios[calls[k].scenario_i], "main_prompt",
                        JNull).v
         /\ k < Len(calls) => calls[k].scenario_i < calls[k + 1].scenario_i
         /\ calls[k].exc = "none" => calls[k].scenario_i < sim.scenario_i
    /\ \A i \in 1..Len(args.scenarios) :
         (i < sim.scenario_i /\ HasMainPrompt(args.scenarios[i])) =>
           \E k \in 1..Len(calls) : calls[k].scenario_i = i
    /\ results = RowsOfCalls(Len(calls))
    /\ (pc = "done" /\ ret.exc = "none") =>
         /\ sim.scenario_i = Len(args.scenarios) + 1
         /\ ret.value.written <=> results # <<>>
         /\ ret.value.written => ret.value.rows = RowsOfCalls(Len(calls))
    /\ (pc = "done" /\ ret.exc # "none") => "value" \notin DOMAIN ret

C29_Witness ==
  /\ entry = "CI" /\ args.clicked /\ pc = "done" /\ ret.exc = "none"
  /\ Len(args.scenarios) = 2
  /\ ~HasMainPrompt(args.scenarios[1]) /\ HasMainPrompt(args.scenarios[2])
  /\ Len(calls) = 1
  /\ ret.value.written
  /\ Len(ret.value.rows) = Len(PersonaNames)
  /\ ret.value.rows[1].passed = "yes" /\ ret.value.rows[2].passed = "no"
  /\ ret.value.rows[3].score = "0"

====
